---- MODULE Spec2Model ----
(***************************************************************************)
(* Redemption-to-ledger reconciliation of the BotcoinAdmin console.        *)
(*                                                                         *)
(* The hosted store holds three tables (redemption_requests,               *)
(* user_profiles, transactions).  Every administrator session runs         *)
(* TransactionsScreen: it caches the request list, lets the administrator  *)
(* select a cached pending request and press Complete or Reject, which     *)
(* runs handleRequestAction.  Each `await supabase...` of the handler is   *)
(* one atomic store operation; the synchronous code between two awaits is  *)
(* part of the step that ends at the next await.  Steps of different       *)
(* sessions interleave freely.                                             *)
(*                                                                         *)
(* HomeScreen keeps a local list of the active rows of                     *)
(* system_notifications: a full fetch replaces it, and the change events   *)
(* of a realtime channel are merged into it one by one.                    *)
(***************************************************************************)
EXTENDS Integers, Sequences, FiniteSets, TLC

(* ------------------------------ bounds -------------------------------- *)
NumRequests == 2      \* rows of redemption_requests
MaxPoints == 2        \* largest initial available_points
MaxCalls == 2         \* handleRequestAction invocations in one behaviour
NumNotifications == 2 \* rows of system_notifications
MaxEdits == 1         \* edits of one notification's title and message
MaxEvents == 1        \* change events raised and not yet delivered

(* Two administrators, each with the screen open on a device. *)
Sessions == {1, 2}
Requests == 1..NumRequests
TheUser == "u1"
Users == {TheUser}

VARIABLES
    redemption_requests,  \* store table: request id -> row
    user_profiles,        \* store table: user id -> balance row
    transactions,         \* store table: sequence of ledger rows, id = index
    redemptionRequests,   \* per session: cached list, request id -> status
    selectedRequest,      \* per session: snapshot shown in the modal
    modalVisible,         \* per session
    processingAction,     \* per session: the in-flight flag
    pc,                   \* per session: the store operation awaited next
    call,                 \* per session: arguments of the call in flight or
                          \*   last alerted about
    currentProfile,       \* per session: balance row read at line 218
    existingTransaction,  \* per session: ledger id found at line 262, 0 = none
    outcome,              \* per session: the alert handleRequestAction shows
    calls,                \* handleRequestAction invocations so far
    admins,               \* store table: the sessions whose user has a row
    focused,              \* per session: the Transactions tab is the one shown
    system_notifications, \* store table: notification id -> row
    notifications,        \* HomeScreen: the local list, newest first
    subscription,         \* HomeScreen: the realtime channel's state
    events,               \* change events raised and not yet delivered
    fetched,              \* HomeScreen: the fetch in flight and its answer
    mounted               \* HomeScreen is mounted (its effect has run)

store == <<redemption_requests, user_profiles, transactions>>
local == <<redemptionRequests, selectedRequest, modalVisible, processingAction,
           pc, call, currentProfile, existingTransaction, outcome>>
access == <<admins, focused>>
home == <<system_notifications, notifications, subscription, events, fetched,
          mounted>>
vars == <<redemption_requests, user_profiles, transactions, redemptionRequests,
          selectedRequest, modalVisible, processingAction, pc, call,
          currentProfile, existingTransaction, outcome, calls,
          admins, focused, system_notifications, notifications, subscription,
          events, fetched, mounted>>

NoRequest == [id |-> 0, status |-> "none"]
NoCall == [id |-> 0, action |-> "none"]
NoProfile == [available_points |-> 0, redeemed_points |-> 0, total_points |-> 0]

(* The actions the modal buttons pass to handleRequestAction. *)
ButtonActions == {"completed", "rejected"}

(* The points the requests ask for: all the same amount, or request r asks
   for r points. *)
PointsRequested == {[r \in Requests |-> 1], [r \in Requests |-> r]}

(* A ledger row as the requesting app leaves it for a pending request. *)
PendingRow(r, u, p) ==
    [user_id |-> u, type |-> "redeemed", amount |-> -p, status |-> "pending",
     reference_id |-> r, description |-> "Requested"]

(* The requests the ledger holds a pending row for at the start: request 1
   has one, the other requests have no ledger trace yet. *)
Seeded == {1}

(* The initial ledger: one pending row for each request in `seeded`. *)
RECURSIVE SeedLedger(_, _, _)
SeedLedger(seeded, r, reqs) ==
    IF r > NumRequests THEN <<>>
    ELSE (IF r \in seeded
          THEN <<PendingRow(r, reqs[r].user_id, reqs[r].points_redeemed)>>
          ELSE <<>>) \o SeedLedger(seeded, r + 1, reqs)

(* Ids of the ledger rows matching .eq('reference_id', r).eq('type', 'redeemed') *)
RedeemedRows(r) ==
    {i \in 1..Len(transactions) :
        /\ transactions[i].reference_id = r
        /\ transactions[i].type = "redeemed"}

(* Any store operation may answer with an error instead of taking effect. *)
StoreAnswers == {"ok", "error"}

(* The rows of system_notifications, by id; a row that does not exist yet or
   was deleted is NoNotification. *)
NotificationIds == 1..NumNotifications
NoNotification == [state |-> "absent", priority |-> "low", title |-> 0,
                   created_at |-> 0]
NoFetch == [stage |-> "none", data |-> <<>>]

(* HomeScreen before its effect has run: useState([]), no channel. *)
InitHome ==
    /\ system_notifications = [n \in NotificationIds |-> NoNotification]
    /\ notifications = <<>>
    /\ subscription = "none"
    /\ events = <<>>
    /\ fetched = NoFetch
    /\ mounted = FALSE

(* The start but for the ledger: every request pending, nothing redeemed,
   the screens as constructed. *)
InitButLedger ==
    /\ \E pts \in PointsRequested :
         redemption_requests =
             [r \in Requests |->
                 [status |-> "pending", processed_at |-> 0,
                  user_id |-> TheUser, points_redeemed |-> pts[r]]]
    /\ \E a \in 0..MaxPoints :
         user_profiles =
             [u \in Users |->
                 [available_points |-> a, redeemed_points |-> 0,
                  total_points |-> a]]
    /\ redemptionRequests = [s \in Sessions |-> [r \in Requests |-> "none"]]
    /\ selectedRequest = [s \in Sessions |-> NoRequest]
    /\ modalVisible = [s \in Sessions |-> FALSE]
    /\ processingAction = [s \in Sessions |-> FALSE]
    /\ pc = [s \in Sessions |-> "idle"]
    /\ call = [s \in Sessions |-> NoCall]
    /\ currentProfile = [s \in Sessions |-> NoProfile]
    /\ existingTransaction = [s \in Sessions |-> 0]
    /\ outcome = [s \in Sessions |-> "none"]
    /\ calls = 0
    /\ admins = Sessions
    /\ focused = [s \in Sessions |-> TRUE]
    /\ InitHome

Init ==
    /\ InitButLedger
    /\ transactions = SeedLedger(Seeded, 1, redemption_requests)

(* ------------------------- TransactionsScreen ------------------------- *)

(* What .from('redemption_requests').select() returns, as the list keeps it. *)
StoredStatuses == [r \in Requests |-> redemption_requests[r].status]

(* checkAdminStatus: the signed-in user has a row in admins. *)
checkAdminStatus(s) == s \in admins

(* What fetchRedemptionRequests puts in the list: the rows of the store for
   an administrator, and setRedemptionRequests([]) after "Access Denied". *)
FetchedList(s) ==
    IF checkAdminStatus(s) THEN StoredStatuses ELSE [r \in Requests |-> "none"]

(* Alert.alert is a blocking dialog: the administrator dismisses it before
   touching the screen again. *)
DismissAlert(s) ==
    /\ outcome' = [outcome EXCEPT ![s] = "none"]
    /\ call' = [call EXCEPT ![s] = IF pc[s] = "idle" THEN NoCall ELSE @]

(* No invocation can follow once the bound on invocations is reached, and
   the screen's other actions are cut there as well. *)
MoreCalls == calls < MaxCalls

(* fetchRedemptionRequests, from fetchData on mount or onRefresh; the list
   and its refresh control lie behind the modal.  A failed fetch alerts and
   leaves the list as it was, which is no step of the model. *)
FetchRedemptionRequests(s) ==
    /\ MoreCalls
    /\ focused[s]
    /\ pc[s] = "idle"
    /\ ~modalVisible[s]
    /\ redemptionRequests' = [redemptionRequests EXCEPT ![s] = FetchedList(s)]
    /\ DismissAlert(s)
    /\ UNCHANGED <<store, selectedRequest, modalVisible, processingAction, pc,
                   currentProfile, existingTransaction, calls>>
    /\ UNCHANGED <<admins, focused, home>>

(* The rows the list renders: redemptionRequests.filter(status === 'pending') *)
pendingRequests(s) == {r \in Requests : redemptionRequests[s][r] = "pending"}

(* renderRedemptionRequest onPress: open the modal on a listed request. *)
SelectRequest(s, r) ==
    /\ MoreCalls
    /\ focused[s]
    /\ ~modalVisible[s]
    /\ r \in pendingRequests(s)
    /\ selectedRequest' = [selectedRequest EXCEPT
                              ![s] = [id |-> r, status |-> redemptionRequests[s][r]]]
    /\ modalVisible' = [modalVisible EXCEPT ![s] = TRUE]
    /\ DismissAlert(s)
    /\ UNCHANGED <<store, redemptionRequests, processingAction, pc,
                   currentProfile, existingTransaction, calls>>
    /\ UNCHANGED <<admins, focused, home>>

(* Modal onRequestClose and the Close button, both inert while processing. *)
CloseModal(s) ==
    /\ MoreCalls
    /\ modalVisible[s]
    /\ ~processingAction[s]
    /\ modalVisible' = [modalVisible EXCEPT ![s] = FALSE]
    /\ DismissAlert(s)
    /\ UNCHANGED <<store, redemptionRequests, selectedRequest, processingAction,
                   pc, currentProfile, existingTransaction, calls>>
    /\ UNCHANGED <<admins, focused, home>>

(* The precondition the screen applies before a transition: the Complete and
   Reject buttons are rendered only for a snapshot whose status is pending. *)
ButtonsShown(s) ==
    /\ modalVisible[s]
    /\ selectedRequest[s].id # 0
    /\ selectedRequest[s].status = "pending"

(* ------------------------ handleRequestAction ------------------------- *)

(* The request row the handler was given and the balance row it works on. *)
CallUser(s) == redemption_requests[call[s].id].user_id
CallPoints(s) == redemption_requests[call[s].id].points_redeemed

(* The handler returns: finally { setProcessingAction(false) }, and its
   locals (currentProfile, existingTransaction) are gone. *)
Return(s) ==
    /\ processingAction' = [processingAction EXCEPT ![s] = FALSE]
    /\ currentProfile' = [currentProfile EXCEPT ![s] = NoProfile]
    /\ existingTransaction' = [existingTransaction EXCEPT ![s] = 0]
    /\ pc' = [pc EXCEPT ![s] = "idle"]

(* catch: alert the error; then finally.  The modal stays open. *)
Throw(s, kind) ==
    /\ outcome' = [outcome EXCEPT ![s] = kind]
    /\ Return(s)

(* The handler goes on to await the store operation `label`. *)
Await(s, label) ==
    /\ pc' = [pc EXCEPT ![s] = label]
    /\ UNCHANGED <<outcome, processingAction>>

(* Entry: the in-flight guard, setProcessingAction(true), updateData built. *)
Press(s, action) ==
    /\ ButtonsShown(s)
    /\ ~processingAction[s]
    /\ MoreCalls
    /\ calls' = calls + 1
    /\ processingAction' = [processingAction EXCEPT ![s] = TRUE]
    /\ call' = [call EXCEPT ![s] = [id |-> selectedRequest[s].id,
                                    action |-> action]]
    /\ outcome' = [outcome EXCEPT ![s] = "none"]
    /\ pc' = [pc EXCEPT ![s] = "updateRequest"]
    /\ UNCHANGED <<store, redemptionRequests, selectedRequest, modalVisible,
                   currentProfile, existingTransaction>>
    /\ UNCHANGED <<admins, focused, home>>

(* The row written by .update(updateData).eq('id', request.id).  A timestamp
   column holds the number of times it was written (0 = null): every write
   stores new Date(), a value the column did not hold before. *)
UpdatedRequest(row, action) ==
    [row EXCEPT !.status = action,
                !.processed_at = IF action # "pending" THEN @ + 1 ELSE @]

(* Every action taken through the completion branch. *)
BranchAlwaysCompletes(action) == "getProfile"

(* What follows the status write: `if (action === 'completed')` the balance
   steps, `else if (action === 'rejected')` the ledger update, and for
   'pending' neither: the handler goes straight on to line 341. *)
Branch(action) ==
    IF action = "completed" THEN "getProfile"
    ELSE IF action = "rejected" THEN "rejectTransaction"
    ELSE "reportSuccess"

(* "Update local state optimistically", the Success alert, the modal closed;
   the refresh of line 357 is awaited next. *)
ReportSuccess(s) ==
    /\ redemptionRequests' =
           [redemptionRequests EXCEPT ![s] =
               [r \in Requests |->
                   IF r = call[s].id /\ @[r] # "none" THEN call[s].action ELSE @[r]]]
    /\ outcome' = [outcome EXCEPT ![s] = "Success"]
    /\ modalVisible' = [modalVisible EXCEPT ![s] = FALSE]
    /\ pc' = [pc EXCEPT ![s] = "refresh"]
    /\ UNCHANGED <<processingAction, currentProfile, existingTransaction>>

(* await supabase.from('redemption_requests').update(updateData).eq('id', ...) *)
UpdateRequest(s, ans) ==
    /\ pc[s] = "updateRequest"
    /\ ans \in StoreAnswers
    /\   IF ans = "error"
         THEN /\ Throw(s, "StoreError")
              /\ UNCHANGED <<redemption_requests, redemptionRequests,
                             modalVisible>>
         ELSE /\ redemption_requests' =
                    [redemption_requests EXCEPT
                        ![call[s].id] = UpdatedRequest(@, call[s].action)]
              /\   IF Branch(call[s].action) = "reportSuccess"
                   THEN ReportSuccess(s)
                   ELSE /\ Await(s, Branch(call[s].action))
                        /\ UNCHANGED <<currentProfile, existingTransaction,
                                       redemptionRequests, modalVisible>>
    /\ UNCHANGED <<user_profiles, transactions, selectedRequest, call, calls>>
    /\ UNCHANGED <<admins, focused, home>>

(* The sufficiency check left out: every balance passes. *)
SufficientPointsUnchecked(profile, points) == TRUE

(* 2. Check if user still has enough points *)
SufficientPoints(profile, points) == ~(profile.available_points < points)

(* 1. await supabase.from('user_profiles').select(...).single(), then the
   sufficiency check on the row just read. *)
GetProfile(s, ans) ==
    /\ pc[s] = "getProfile"
    /\ ans \in StoreAnswers
    /\   IF ans = "error"
         THEN /\ Throw(s, "StoreError")
         ELSE /\ IF SufficientPoints(user_profiles[CallUser(s)], CallPoints(s))
                 THEN /\ currentProfile' =
                            [currentProfile EXCEPT ![s] = user_profiles[CallUser(s)]]
                      /\ Await(s, "updatePoints")
                      /\ UNCHANGED existingTransaction
                 ELSE Throw(s, "InsufficientBalance")
    /\ UNCHANGED <<store, redemptionRequests, selectedRequest, modalVisible,
                   call, calls>>
    /\ UNCHANGED <<admins, focused, home>>

(* The new values with the credit to redeemed_points doubled. *)
NewPointsDoubleCredit(profile, points) ==
    [available_points |-> profile.available_points - points,
     redeemed_points |-> profile.redeemed_points + points + points]

(* The new values with the debit of available_points left out. *)
NewPointsNoDebit(profile, points) ==
    [available_points |-> profile.available_points,
     redeemed_points |-> profile.redeemed_points + points]

(* 3. Calculate new point values, from the row read at step 1. *)
NewPoints(profile, points) ==
    [available_points |-> profile.available_points - points,
     redeemed_points |-> profile.redeemed_points + points]

(* 4. await supabase.from('user_profiles').update({available_points,
   redeemed_points, updated_at}).eq('user_id', ...) *)
UpdatePoints(s, ans) ==
    /\ pc[s] = "updatePoints"
    /\ ans \in StoreAnswers
    /\   IF ans = "error"
         THEN /\ Throw(s, "StoreError")
              /\ UNCHANGED user_profiles
         ELSE /\ LET new == NewPoints(currentProfile[s], CallPoints(s))
                 IN user_profiles' =
                        [user_profiles EXCEPT
                            ![CallUser(s)].available_points = new.available_points,
                            ![CallUser(s)].redeemed_points = new.redeemed_points]
              /\ Await(s, "checkTransaction")
              /\ UNCHANGED <<currentProfile, existingTransaction>>
    /\ UNCHANGED <<redemption_requests, transactions, redemptionRequests,
                   selectedRequest, modalVisible, call, calls>>
    /\ UNCHANGED <<admins, focused, home>>

(* What .single() hands back for the lookup: the row's id when exactly one row
   matches, and nothing (PGRST116, which the handler lets pass) otherwise. *)
SingleRow(rows) == IF Cardinality(rows) = 1 THEN CHOOSE i \in rows : TRUE ELSE 0

(* 5. await supabase.from('transactions').select('id, status')
        .eq('reference_id', ...).eq('type', 'redeemed').single() *)
CheckTransaction(s, ans) ==
    /\ pc[s] = "checkTransaction"
    /\ ans \in StoreAnswers
    /\   IF ans = "error"
         THEN /\ Throw(s, "StoreError")
         ELSE /\ existingTransaction' =
                     [existingTransaction EXCEPT
                         ![s] = SingleRow(RedeemedRows(call[s].id))]
              /\ Await(s, IF SingleRow(RedeemedRows(call[s].id)) # 0
                          THEN "updateTransaction" ELSE "insertTransaction")
              /\ UNCHANGED currentProfile
    /\ UNCHANGED <<store, redemptionRequests, selectedRequest, modalVisible,
                   call, calls>>
    /\ UNCHANGED <<admins, focused, home>>

(* The row left by the update of an existing ledger entry on completion. *)
CompletedRow(row) ==
    [row EXCEPT !.status = "completed", !.description = "Completed"]

(* The handler's reaction to an error of the ledger update or insert:
   console.error, "Don't throw here as the main operation succeeded". *)
LedgerWriteFailed(s) == ReportSuccess(s)

(* await supabase.from('transactions').update(...).eq('id', existing.id) *)
UpdateTransaction(s, ans) ==
    /\ pc[s] = "updateTransaction"
    /\ ans \in StoreAnswers
    /\   IF ans = "error"
         THEN /\ UNCHANGED transactions
              /\ LedgerWriteFailed(s)
         ELSE /\ transactions' =
                     [transactions EXCEPT
                         ![existingTransaction[s]] = CompletedRow(@)]
              /\ ReportSuccess(s)
    /\ UNCHANGED <<redemption_requests, user_profiles, selectedRequest, call,
                   calls>>
    /\ UNCHANGED <<admins, focused, home>>

(* The created row with the points as they are, not negated. *)
NewRowUnsigned(r, u, points) ==
    [user_id |-> u, type |-> "redeemed", amount |-> points,
     status |-> "completed", reference_id |-> r, description |-> "Completed"]

(* The row created for a completion that found no ledger entry. *)
NewRow(r, u, points) ==
    [user_id |-> u, type |-> "redeemed", amount |-> -points,
     status |-> "completed", reference_id |-> r, description |-> "Completed"]

(* await supabase.from('transactions').insert(...) *)
InsertTransaction(s, ans) ==
    /\ pc[s] = "insertTransaction"
    /\ ans \in StoreAnswers
    /\   IF ans = "error"
         THEN /\ UNCHANGED transactions
              /\ LedgerWriteFailed(s)
         ELSE /\ transactions' =
                     Append(transactions,
                            NewRow(call[s].id, CallUser(s), CallPoints(s)))
              /\ ReportSuccess(s)
    /\ UNCHANGED <<redemption_requests, user_profiles, selectedRequest, call,
                   calls>>
    /\ UNCHANGED <<admins, focused, home>>

(* The rejection's update with the status column left out. *)
FailedRowKeepsStatus(row) == [row EXCEPT !.description = "Rejected"]

(* The row left by the rejection's update. *)
FailedRow(row) ==
    [row EXCEPT !.status = "failed", !.description = "Rejected"]

(* The rejection's update as an upsert: a failed row is created for a
   request that has none. *)
RejectedLedgerUpsert(ledger, r) ==
    IF \E i \in 1..Len(ledger) :
           ledger[i].reference_id = r /\ ledger[i].type = "redeemed"
    THEN [i \in 1..Len(ledger) |->
             IF ledger[i].reference_id = r /\ ledger[i].type = "redeemed"
             THEN [ledger[i] EXCEPT !.status = "failed",
                                    !.description = "Rejected"]
             ELSE ledger[i]]
    ELSE Append(ledger,
                [user_id |-> TheUser, type |-> "redeemed", amount |-> 0,
                 status |-> "failed", reference_id |-> r,
                 description |-> "Rejected"])

(* The ledger after .update({status: 'failed', ...}).eq('reference_id', r)
   .eq('type', 'redeemed'): every matching row is updated, none is added. *)
RejectedLedger(ledger, r) ==
    [i \in 1..Len(ledger) |->
        IF ledger[i].reference_id = r /\ ledger[i].type = "redeemed"
        THEN FailedRow(ledger[i])
        ELSE ledger[i]]

(* await supabase.from('transactions').update({status: 'failed', ...})
        .eq('reference_id', ...).eq('type', 'redeemed').select() *)
RejectTransaction(s, ans) ==
    /\ pc[s] = "rejectTransaction"
    /\ ans \in StoreAnswers
    /\   IF ans = "error"
         THEN /\ Throw(s, "StoreError")
              /\ UNCHANGED <<transactions, redemptionRequests, modalVisible>>
         ELSE /\ transactions' = RejectedLedger(transactions, call[s].id)
              /\ ReportSuccess(s)
    /\ UNCHANGED <<redemption_requests, user_profiles, selectedRequest, call,
                   calls>>
    /\ UNCHANGED <<admins, focused, home>>

(* The refresh and the finally block tied to the screen being shown: a call
   whose screen was left does not go on. *)
RefreshOnlyWhileShown(s, ans) ==
    /\ focused[s]
    /\ pc[s] = "refresh"
    /\ ans \in StoreAnswers
    /\   IF ans = "error"
         THEN /\ outcome' = [outcome EXCEPT ![s] = "SuccessThenRefreshError"]
              /\ UNCHANGED redemptionRequests
         ELSE /\ UNCHANGED outcome
              /\ redemptionRequests' =
                     [redemptionRequests EXCEPT ![s] = FetchedList(s)]
    /\ Return(s)
    /\ UNCHANGED <<store, selectedRequest, modalVisible, call, calls>>
    /\ UNCHANGED <<admins, focused, home>>

(* await Promise.all([fetchRedemptionRequests(), fetchTransactionHistory()]),
   then finally.  A failed refresh rethrows into the handler's catch, which
   alerts an error after the Success alert. *)
Refresh(s, ans) ==
    /\ pc[s] = "refresh"
    /\ ans \in StoreAnswers
    /\   IF ans = "error"
         THEN /\ outcome' = [outcome EXCEPT ![s] = "SuccessThenRefreshError"]
              /\ UNCHANGED redemptionRequests
         ELSE /\ UNCHANGED outcome
              /\ redemptionRequests' =
                     [redemptionRequests EXCEPT ![s] = FetchedList(s)]
    /\ Return(s)
    /\ UNCHANGED <<store, selectedRequest, modalVisible, call, calls>>
    /\ UNCHANGED <<admins, focused, home>>

(* ---------------------------- specification --------------------------- *)

Next ==
    \/ \E s \in Sessions : FetchRedemptionRequests(s)
    \/ \E s \in Sessions, r \in Requests : SelectRequest(s, r)
    \/ \E s \in Sessions : CloseModal(s)
    \/ \E s \in Sessions, a \in ButtonActions : Press(s, a)
    \/ \E s \in Sessions, ans \in StoreAnswers : UpdateRequest(s, ans)
    \/ \E s \in Sessions, ans \in StoreAnswers : GetProfile(s, ans)
    \/ \E s \in Sessions, ans \in StoreAnswers : UpdatePoints(s, ans)
    \/ \E s \in Sessions, ans \in StoreAnswers : CheckTransaction(s, ans)
    \/ \E s \in Sessions, ans \in StoreAnswers : UpdateTransaction(s, ans)
    \/ \E s \in Sessions, ans \in StoreAnswers : InsertTransaction(s, ans)
    \/ \E s \in Sessions, ans \in StoreAnswers : RejectTransaction(s, ans)
    \/ \E s \in Sessions, ans \in StoreAnswers : Refresh(s, ans)

Spec == Init /\ [][Next]_vars

(* The same screen when the administrators act one after the other (nobody
   presses a button while another session's handler is running) and the
   store answers every operation. *)
NoOtherInFlight(s) == \A t \in Sessions \ {s} : pc[t] = "idle"

NextSerial ==
    \/ \E s \in Sessions : FetchRedemptionRequests(s)
    \/ \E s \in Sessions, r \in Requests : SelectRequest(s, r)
    \/ \E s \in Sessions : CloseModal(s)
    \/ \E s \in Sessions, a \in ButtonActions : NoOtherInFlight(s) /\ Press(s, a)
    \/ \E s \in Sessions : UpdateRequest(s, "ok")
    \/ \E s \in Sessions : GetProfile(s, "ok")
    \/ \E s \in Sessions : UpdatePoints(s, "ok")
    \/ \E s \in Sessions : CheckTransaction(s, "ok")
    \/ \E s \in Sessions : UpdateTransaction(s, "ok")
    \/ \E s \in Sessions : InsertTransaction(s, "ok")
    \/ \E s \in Sessions : RejectTransaction(s, "ok")
    \/ \E s \in Sessions : Refresh(s, "ok")

SpecSerial == Init /\ [][NextSerial]_vars

(* The row of a session's user is removed from admins while the app is open
   (between two calls of that session: a removal during a running handler is
   left out). *)
RevokeAdmin(s) ==
    /\ s \in admins
    /\ pc[s] = "idle"
    /\ admins' = admins \ {s}
    /\ UNCHANGED <<store, local, calls, focused, home>>

NextAdmin ==
    \/ Next
    \/ \E s \in Sessions : RevokeAdmin(s)

SpecAdmin == Init /\ [][NextAdmin]_vars

(* MainTabs: the administrator switches to another tab and back.  The tab
   bar lies under the modal, so it can be reached only while the modal is
   not shown, which during a call is the time from line 354 to the end of
   the refresh.  The screen stays mounted and keeps its state. *)
LeaveScreen(s) ==
    /\ focused[s]
    /\ ~modalVisible[s]
    /\ focused' = [focused EXCEPT ![s] = FALSE]
    /\ DismissAlert(s)
    /\ UNCHANGED <<store, redemptionRequests, selectedRequest, modalVisible,
                   processingAction, pc, currentProfile, existingTransaction,
                   calls, admins, home>>

EnterScreen(s) ==
    /\ ~focused[s]
    /\ focused' = [focused EXCEPT ![s] = TRUE]
    /\ UNCHANGED <<store, local, calls, admins, home>>

(* One step of session s's running handler: the store operation it awaits
   is answered and the code up to the next await runs. *)
HandlerStep(s) ==
    \E ans \in StoreAnswers :
        \/ UpdateRequest(s, ans)
        \/ GetProfile(s, ans)
        \/ UpdatePoints(s, ans)
        \/ CheckTransaction(s, ans)
        \/ UpdateTransaction(s, ans)
        \/ InsertTransaction(s, ans)
        \/ RejectTransaction(s, ans)
        \/ Refresh(s, ans)

NextLive ==
    \/ Next
    \/ \E s \in Sessions : LeaveScreen(s)
    \/ \E s \in Sessions : EnterScreen(s)

(* Every awaited store operation is answered in the end, with a result or
   with an error, and the continuation then runs. *)
SpecLive ==
    Init /\ [][NextLive]_vars /\ \A s \in Sessions : WF_vars(HandlerStep(s))

(* The amounts a pending row can hold when the console finds it.  The rows
   are written by the users' application; the console reads their amount
   only to display it with its sign (renderTransaction) and never checks it
   against the request: the points negated, or as they are. *)
SeedAmounts(points) == {-points, points}

(* The start with the seeded rows' amounts as their writer left them. *)
InitLedger ==
    /\ InitButLedger
    /\ user_profiles[TheUser].available_points = MaxPoints
    /\ \A r \in Requests : redemption_requests[r].points_redeemed = 1
    /\ \E amt \in SeedAmounts(1) :
           transactions =
               [i \in DOMAIN SeedLedger(Seeded, 1, redemption_requests) |->
                   [SeedLedger(Seeded, 1, redemption_requests)[i]
                       EXCEPT !.amount = amt]]

SpecLedger == InitLedger /\ [][Next]_vars

(* The invocation made while a run is in flight starts a run of its own. *)
PressInFlightUnguarded(s, action) ==
    /\ ButtonsShown(s)
    /\ processingAction[s]
    /\ MoreCalls
    /\ calls' = calls + 1
    /\ call' = [call EXCEPT ![s] = [id |-> selectedRequest[s].id,
                                    action |-> action]]
    /\ pc' = [pc EXCEPT ![s] = "updateRequest"]
    /\ UNCHANGED <<store, redemptionRequests, selectedRequest, modalVisible,
                   processingAction, currentProfile, existingTransaction,
                   outcome>>
    /\ UNCHANGED <<admins, focused, home>>

(* handleRequestAction invoked while a run of the session is in flight and
   the screen is rendered with the flag set: if (processingAction) return; *)
PressInFlight(s, action) ==
    /\ ButtonsShown(s)
    /\ processingAction[s]
    /\ UNCHANGED vars

NextTaps ==
    \/ Next
    \/ \E s \in Sessions, a \in ButtonActions : PressInFlight(s, a)

(* The console with invocations arriving while a run is in flight. *)
SpecTaps == Init /\ [][NextTaps]_vars

(* handleRequestAction over the whole of its parameter type: the action
   'pending' as well as the two the buttons pass. *)
HandlerActions == {"pending", "completed", "rejected"}

NextAnyAction ==
    \/ Next
    \/ \E s \in Sessions, a \in HandlerActions \ ButtonActions : Press(s, a)

SpecAnyAction == Init /\ [][NextAnyAction]_vars

(* ------------------------------ HomeScreen ---------------------------- *)

(* The values of system_notifications.priority. *)
Priorities == {"critical", "high", "low"}

(* Every priority shown as information. *)
getNotificationTypeFlat(priority) == "info"

getNotificationType(priority) ==
    CASE priority = "critical" -> "error"
      [] priority = "high" -> "warning"
      [] OTHER -> "info"

(* The local entry made from a row of the table or from payload.new. *)
NewNotification(id, record) ==
    [id |-> id, title |-> record.title,
     type |-> getNotificationType(record.priority),
     created_at |-> record.created_at, read |-> FALSE]

(* The rows .eq('active', true) selects. *)
ActiveIds == {n \in NotificationIds : system_notifications[n].state = "active"}

(* The rows mapped oldest first. *)
RECURSIVE MappedNotificationsAscending(_)
MappedNotificationsAscending(ids) ==
    IF ids = {} THEN <<>>
    ELSE LET n == CHOOSE n \in ids :
                      \A m \in ids : system_notifications[n].created_at
                                         <= system_notifications[m].created_at
         IN <<NewNotification(n, system_notifications[n])>>
                \o MappedNotificationsAscending(ids \ {n})

(* .order('created_at', { ascending: false }), mapped to local entries. *)
RECURSIVE MappedNotifications(_)
MappedNotifications(ids) ==
    IF ids = {} THEN <<>>
    ELSE LET n == CHOOSE n \in ids :
                      \A m \in ids : system_notifications[m].created_at
                                         <= system_notifications[n].created_at
         IN <<NewNotification(n, system_notifications[n])>>
                \o MappedNotifications(ids \ {n})

(* The postgres_changes payloads.  A DELETE carries the old row's id only. *)
ChangeEvent(eventType, id, record) ==
    [eventType |-> eventType, id |-> id, title |-> record.title,
     priority |-> record.priority, created_at |-> record.created_at]

(* The channel hands a change to the subscribed client; changes made while
   no client is subscribed are not kept for it. *)
Raised(ev) ==
    IF subscription = "subscribed" THEN Append(events, ev) ELSE events

RoomForEvent == Len(events) < MaxEvents

(* created_at of the next row: the table's rows are created one after the
   other. *)
Now == Cardinality({n \in NotificationIds :
                       system_notifications[n].state # "absent"}) + 1

(* What the screen's actions leave alone on the Transactions side. *)
screen == <<store, local, calls, access>>

(* Other writers of system_notifications (the console has no form for it):
   a row is created active, edited, deactivated, deleted.
   The subscription's filter active=eq.true is applied to the new row, so a
   deactivation raises no event for this client; a DELETE is not filtered. *)
InsertNotification(n, p) ==
    /\ system_notifications[n].state = "absent"
    /\ RoomForEvent
    /\ LET row == [state |-> "active", priority |-> p, title |-> 0,
                   created_at |-> Now]
       IN /\ system_notifications' = [system_notifications EXCEPT ![n] = row]
          /\ events' = Raised(ChangeEvent("INSERT", n, row))
    /\ UNCHANGED <<notifications, subscription, fetched, mounted, screen>>

EditNotification(n, p) ==
    /\ system_notifications[n].state = "active"
    /\ system_notifications[n].title < MaxEdits
    /\ RoomForEvent
    /\ LET row == [system_notifications[n] EXCEPT !.title = @ + 1,
                                                  !.priority = p]
       IN /\ system_notifications' = [system_notifications EXCEPT ![n] = row]
          /\ events' = Raised(ChangeEvent("UPDATE", n, row))
    /\ UNCHANGED <<notifications, subscription, fetched, mounted, screen>>

DeactivateNotification(n) ==
    /\ system_notifications[n].state = "active"
    /\ system_notifications' =
           [system_notifications EXCEPT ![n].state = "inactive"]
    /\ UNCHANGED <<notifications, subscription, events, fetched, mounted, screen>>

RemoveNotification(n) ==
    /\ system_notifications[n].state \in {"active", "inactive"}
    /\ RoomForEvent
    /\ system_notifications' =
           [system_notifications EXCEPT
               ![n] = [NoNotification EXCEPT !.state = "deleted"]]
    /\ events' = Raised(ChangeEvent("DELETE", n, NoNotification))
    /\ UNCHANGED <<notifications, subscription, fetched, mounted, screen>>

(* useEffect on mount: fetchData() is called and the channel subscribed. *)
Mount ==
    /\ ~mounted
    /\ mounted' = TRUE
    /\ subscription' = "subscribed"
    /\ fetched' = [stage |-> "sent", data |-> <<>>]
    /\ UNCHANGED <<system_notifications, notifications, events, screen>>

(* fetchData from the refresh button or the pull-to-refresh control. *)
fetchData ==
    /\ mounted
    /\ fetched.stage = "none"
    /\ fetched' = [stage |-> "sent", data |-> <<>>]
    /\ UNCHANGED <<system_notifications, notifications, subscription, events,
                   mounted, screen>>

(* fetchNotifications: the select is answered, with the active rows newest
   first or with an error (alert "Failed to load notifications"). *)
fetchNotifications(ans) ==
    /\ fetched.stage = "sent"
    /\ ans \in StoreAnswers
    /\ fetched' = IF ans = "error" THEN NoFetch
                  ELSE [stage |-> "answered",
                        data |-> MappedNotifications(ActiveIds)]
    /\ UNCHANGED <<system_notifications, notifications, subscription, events,
                   mounted, screen>>

(* setNotifications(mappedNotifications) *)
setNotifications ==
    /\ fetched.stage = "answered"
    /\ notifications' = fetched.data
    /\ fetched' = NoFetch
    /\ UNCHANGED <<system_notifications, subscription, events, mounted, screen>>

(* The entry rebuilt from the payload as for an INSERT. *)
UpdatedAsNew(notif, payload) == NewNotification(payload.id, payload)

(* UPDATE: { ...notif, title, message, type } *)
Updated(notif, payload) ==
    [notif EXCEPT !.title = payload.title,
                  !.type = getNotificationType(payload.priority)]

(* The filter kept the entries of the given id and dropped the others. *)
WithoutOthers(list, id) == SelectSeq(list, LAMBDA notif : notif.id = id)

(* prev.filter(notif => notif.id !== id) *)
Without(list, id) == SelectSeq(list, LAMBDA notif : notif.id # id)

(* The postgres_changes callback applied to the list. *)
OnChange(list, payload) ==
    CASE payload.eventType = "INSERT" ->
             <<NewNotification(payload.id, payload)>> \o list
      [] payload.eventType = "UPDATE" ->
             [i \in 1..Len(list) |->
                 IF list[i].id = payload.id
                 THEN Updated(list[i], payload)
                 ELSE list[i]]
      [] OTHER ->
             Without(list, payload.id)

(* The channel delivers the oldest undelivered change. *)
Deliver ==
    /\ subscription = "subscribed"
    /\ events # <<>>
    /\ notifications' = OnChange(notifications, Head(events))
    /\ events' = Tail(events)
    /\ UNCHANGED <<system_notifications, subscription, fetched, mounted, screen>>

(* The ids of the rendered entries. *)
ListedIds == {notifications[i].id : i \in 1..Len(notifications)}

(* Every entry marked as read, whatever its id. *)
MarkedReadAll(list, notificationId) ==
    [i \in 1..Len(list) |-> [list[i] EXCEPT !.read = TRUE]]

(* prev.map(notif => notif.id === notificationId
                         ? { ...notif, read: true } : notif) *)
MarkedRead(list, notificationId) ==
    [i \in 1..Len(list) |->
        IF list[i].id = notificationId
        THEN [list[i] EXCEPT !.read = TRUE]
        ELSE list[i]]

markNotificationAsRead(notificationId) ==
    /\ notificationId \in ListedIds
    /\ notifications' = MarkedRead(notifications, notificationId)
    /\ UNCHANGED <<system_notifications, subscription, events, fetched, mounted, screen>>

unreadCount == Cardinality({i \in 1..Len(notifications) : ~notifications[i].read})

markAllAsRead ==
    /\ unreadCount > 0
    /\ notifications' =
           [i \in 1..Len(notifications) |->
               [notifications[i] EXCEPT !.read = TRUE]]
    /\ UNCHANGED <<system_notifications, subscription, events, fetched, mounted, screen>>

(* deleteNotification, confirmed: .update({ active: false }).eq('id', ...),
   then the entry is filtered out of the list; on an error only an alert. *)
deleteNotification(notificationId, ans) ==
    /\ notificationId \in ListedIds
    /\ ans \in StoreAnswers
    /\   IF ans = "error"
         THEN UNCHANGED <<system_notifications, notifications>>
         ELSE /\ system_notifications' =
                     [system_notifications EXCEPT
                         ![notificationId].state =
                             IF @ = "active" THEN "inactive" ELSE @]
              /\ notifications' = Without(notifications, notificationId)
    /\ UNCHANGED <<subscription, events, fetched, mounted, screen>>

NextHome ==
    \/ \E n \in NotificationIds, p \in Priorities : InsertNotification(n, p)
    \/ \E n \in NotificationIds, p \in Priorities : EditNotification(n, p)
    \/ \E n \in NotificationIds : DeactivateNotification(n)
    \/ \E n \in NotificationIds : RemoveNotification(n)
    \/ Mount
    \/ fetchData
    \/ \E ans \in StoreAnswers : fetchNotifications(ans)
    \/ setNotifications
    \/ Deliver
    \/ \E n \in NotificationIds : markNotificationAsRead(n)
    \/ markAllAsRead
    \/ \E n \in NotificationIds, ans \in StoreAnswers : deleteNotification(n, ans)

(* HomeScreen with one fixed Transactions side. *)
InitOneScreen ==
    /\ Init
    /\ user_profiles[TheUser].available_points = MaxPoints
    /\ \A r \in Requests : redemption_requests[r].points_redeemed = 1

SpecHome == InitOneScreen /\ [][NextHome]_vars

(* The screen went away and its channel stayed joined. *)
UnmountKeepsChannel ==
    /\ mounted
    /\ mounted' = FALSE
    /\ notifications' = <<>>
    /\ fetched' = NoFetch
    /\ UNCHANGED <<system_notifications, subscription, events, screen>>

(* The effect's cleanup, run when HomeScreen unmounts (the administrator
   signs out): supabase.removeChannel(notificationSubscription).  The
   component's state goes with it, an answer still on its way is dropped. *)
Unmount ==
    /\ mounted
    /\ mounted' = FALSE
    /\ subscription' = "removed"
    /\ events' = <<>>
    /\ notifications' = <<>>
    /\ fetched' = NoFetch
    /\ UNCHANGED <<system_notifications, screen>>

(* The realtime socket drops: the changes on their way are lost, and none
   is raised for this client until the channel is joined again. *)
LoseConnection ==
    /\ subscription = "subscribed"
    /\ subscription' = "lost"
    /\ events' = <<>>
    /\ UNCHANGED <<system_notifications, notifications, fetched, mounted,
                   screen>>

(* The realtime client joins the channel again.  .subscribe() is given no
   status callback: no code of the screen runs. *)
Rejoin ==
    /\ subscription = "lost"
    /\ subscription' = "subscribed"
    /\ UNCHANGED <<system_notifications, notifications, events, fetched,
                   mounted, screen>>

NextTeardown ==
    \/ NextHome
    \/ Unmount

(* HomeScreen entered and left. *)
SpecTeardown == InitOneScreen /\ [][NextTeardown]_vars

NextReconnect ==
    \/ NextHome
    \/ LoseConnection
    \/ Rejoin

(* HomeScreen over a connection that can drop. *)
SpecReconnect == InitOneScreen /\ [][NextReconnect]_vars

(* ------------------------------ properties ---------------------------- *)

Completing(s) == call[s].action = "completed"

(* Session s reports success for its call. *)
ReportsSuccess(s) == outcome[s] \in {"Success", "SuccessThenRefreshError"}

(* Session s's handler has passed line 259: its balance write took effect.
   (After a return only a Success alert tells so.) *)
BalanceWritten(s) ==
    /\ Completing(s)
    /\ \/ pc[s] \in {"checkTransaction", "updateTransaction",
                     "insertTransaction", "refresh"}
       \/ pc[s] = "idle" /\ ReportsSuccess(s)

(* The ledger holds a completed redeemed row for request r. *)
HasCompletedRow(ledger, r) ==
    \E i \in 1..Len(ledger) :
        /\ ledger[i].reference_id = r
        /\ ledger[i].type = "redeemed"
        /\ ledger[i].status = "completed"

(* C1 -- Idempotence of completion.  Sessions act one after the other.  While
   session t's completion of a request stands reported as a success, a
   completion of the same request by another session s does not write the
   balance again, ends with InvalidStateError, and the ledger holds exactly
   one redeemed row for the request. *)
C1_SecondCompletionRefused ==
    \A s \in Sessions, t \in Sessions :
        ( /\ s # t
          /\ Completing(t) /\ pc[t] = "idle" /\ outcome[t] = "Success"
          /\ call[s] = call[t] )
        => /\ ~BalanceWritten(s)
           /\ pc[s] = "idle" => outcome[s] = "InvalidState"
           /\ Cardinality(RedeemedRows(call[t].id)) = 1

(* C2 -- Precondition of a transition.  The first store operation of a
   transition (completion or rejection) on a request whose stored status is
   not pending changes no table and ends the call with InvalidStateError. *)
C2_NonPendingUntouched ==
    [][\A s \in Sessions :
          ( /\ pc[s] = "updateRequest"
            /\ pc'[s] # pc[s]
            /\ redemption_requests[call[s].id].status # "pending" )
          => /\ redemption_requests' = redemption_requests
             /\ user_profiles' = user_profiles
             /\ transactions' = transactions
             /\ outcome'[s] = "InvalidState"]_vars

(* C3 -- Insufficient balance.  A completion that ended with
   InsufficientBalanceError on a request nobody else has written (the row was
   written at most once, so it was pending when the call began) leaves the
   request pending with processed_at unset. *)
C3_InsufficientLeavesPending ==
    \A s \in Sessions :
        ( /\ pc[s] = "idle"
          /\ Completing(s)
          /\ outcome[s] = "InsufficientBalance"
          /\ redemption_requests[call[s].id].processed_at <= 1 )
        => /\ redemption_requests[call[s].id].status = "pending"
           /\ redemption_requests[call[s].id].processed_at = 0

(* C4 -- Balance arithmetic.  When a completion writes the balance and no
   other writer has changed the row since the handler read it, available
   drops and redeemed grows by exactly the request's points. *)
C4_DeltaFromReRead ==
    [][\A s \in Sessions :
          ( /\ pc[s] = "updatePoints"
            /\ pc'[s] = "checkTransaction"
            /\ user_profiles[CallUser(s)] = currentProfile[s] )
          => /\ user_profiles'[CallUser(s)].available_points =
                    user_profiles[CallUser(s)].available_points - CallPoints(s)
             /\ user_profiles'[CallUser(s)].redeemed_points =
                    user_profiles[CallUser(s)].redeemed_points + CallPoints(s)
             /\ user_profiles'[CallUser(s)].total_points =
                    user_profiles[CallUser(s)].total_points]_vars

C4_Witness ==
    \E s \in Sessions :
        /\ pc[s] = "checkTransaction"
        /\ currentProfile[s].available_points >= CallPoints(s)
        /\ user_profiles[CallUser(s)].available_points =
               currentProfile[s].available_points - CallPoints(s)
        /\ user_profiles[CallUser(s)].redeemed_points =
               currentProfile[s].redeemed_points + CallPoints(s)

(* C5 -- Race on one request.  Of two handlers that are running at the same
   time to complete the same request, at most one has written the balance. *)
C5_OneWinnerPerRequest ==
    \A s \in Sessions, t \in Sessions :
        ( /\ s # t
          /\ pc[s] # "idle" /\ pc[t] # "idle"
          /\ Completing(s)
          /\ call[s] = call[t] )
        => ~(BalanceWritten(s) /\ BalanceWritten(t))

(* C6 -- Race on two requests of one user.  When the only two calls made so
   far are completions of two different requests of the same user and both
   have written the balance, the balance reflects both: redeemed has grown
   from 0, and available has dropped from total_points, by the sum of the
   two requests' points. *)
C6_BothDecrementsKept ==
    \A s \in Sessions, t \in Sessions :
        ( /\ s # t
          /\ calls = 2
          /\ BalanceWritten(s) /\ BalanceWritten(t)
          /\ call[s].id # call[t].id
          /\ CallUser(s) = CallUser(t) )
        => /\ user_profiles[CallUser(s)].redeemed_points =
                  CallPoints(s) + CallPoints(t)
           /\ user_profiles[CallUser(s)].available_points =
                  user_profiles[CallUser(s)].total_points
                      - CallPoints(s) - CallPoints(t)

(* C7 -- available_points is never negative. *)
C7_AvailableNonNegative ==
    \A u \in Users : user_profiles[u].available_points >= 0

C7_Witness ==
    \E s \in Sessions, t \in Sessions :
        /\ s # t
        /\ BalanceWritten(s) /\ BalanceWritten(t)
        /\ user_profiles[CallUser(s)].available_points = 0

(* C8 -- available_points + redeemed_points never exceeds total_points. *)
C8_WithinTotal ==
    \A u \in Users :
        user_profiles[u].available_points + user_profiles[u].redeemed_points
            <= user_profiles[u].total_points

C8_Witness ==
    \E s \in Sessions :
        /\ BalanceWritten(s)
        /\ user_profiles[CallUser(s)].redeemed_points >= CallPoints(s)
        /\ user_profiles[CallUser(s)].available_points
               + user_profiles[CallUser(s)].redeemed_points
             = user_profiles[CallUser(s)].total_points

(* C9 -- The ledger holds at most one redeemed row per reference_id. *)
C9_OneRowPerReference ==
    \A r \in Requests : Cardinality(RedeemedRows(r)) <= 1

(* C10 -- Partial commit.  When the handler's ledger step (lookup, update or
   insert) ends and the ledger holds no completed row for the request, the
   ledger step has failed after the balance write, and the call does not
   report success. *)
C10_LedgerFailureNotSuccess ==
    [][\A s \in Sessions :
          ( /\ pc[s] \in {"checkTransaction", "updateTransaction",
                          "insertTransaction"}
            /\ pc'[s] \notin {"checkTransaction", "updateTransaction",
                              "insertTransaction"}
            /\ ~HasCompletedRow(transactions', call[s].id) )
          => outcome'[s] \notin {"Success", "SuccessThenRefreshError"}]_vars

(* C11 -- Authorisation.  Every step that the handler of a session takes
   while the session's user is not an administrator writes no request row,
   no balance row and no ledger row, and ends the call with
   NotAuthorizedError. *)
C11_NonAdminRefused ==
    [][\A s \in Sessions :
          ( /\ ~checkAdminStatus(s)
            /\ pc[s] # "idle"
            /\ pc'[s] # pc[s] )
          => /\ store' = store
             /\ pc'[s] = "idle"
             /\ outcome'[s] = "NotAuthorized"]_vars

(* C12 -- Rejection without a ledger entry.  When the administrators act one
   after the other and the store answers, the ledger step of a rejection of
   a request that has no redeemed ledger row adds no row and changes none,
   the call reports success, and the request is stored as rejected. *)
C12_RejectWithoutEntry ==
    [][\A s \in Sessions :
          ( /\ pc[s] = "rejectTransaction"
            /\ pc'[s] # pc[s]
            /\ RedeemedRows(call[s].id) = {} )
          => /\ transactions' = transactions
             /\ outcome'[s] = "Success"
             /\ redemption_requests'[call[s].id].status = "rejected"]_vars

C12_Witness ==
    \E s \in Sessions :
        /\ pc[s] = "refresh"
        /\ call[s].action = "rejected"
        /\ outcome[s] = "Success"
        /\ RedeemedRows(call[s].id) = {}
        /\ redemption_requests[call[s].id].status = "rejected"
        /\ redemption_requests[call[s].id].processed_at = 1

(* C13 -- Rejection with a ledger entry.  When the ledger step of a rejection
   takes effect on a request that has redeemed ledger rows, each of them is
   stored as failed, every other row is as before, and the ledger has as
   many rows as before. *)
C13_RejectMarksFailed ==
    [][\A s \in Sessions :
          ( /\ pc[s] = "rejectTransaction"
            /\ pc'[s] = "refresh"
            /\ RedeemedRows(call[s].id) # {} )
          => /\ Len(transactions') = Len(transactions)
             /\ \A i \in 1..Len(transactions) :
                    IF i \in RedeemedRows(call[s].id)
                    THEN /\ transactions'[i].status = "failed"
                         /\ transactions'[i].reference_id = call[s].id
                         /\ transactions'[i].amount = transactions[i].amount
                    ELSE transactions'[i] = transactions[i]]_vars

C13_Witness ==
    \E s \in Sessions :
        /\ pc[s] = "refresh"
        /\ call[s].action = "rejected"
        /\ RedeemedRows(call[s].id) # {}
        /\ \A i \in RedeemedRows(call[s].id) : transactions[i].status = "failed"

(* C14 -- Rejection and balances.  A step changes a balance row only when it
   is the balance write of a completion, and no step of a rejection's
   handler changes any balance row. *)
C14_OnlyCompletionWritesBalance ==
    [][/\ user_profiles' # user_profiles
            => \E s \in Sessions :
                   /\ Completing(s)
                   /\ pc[s] = "updatePoints"
                   /\ pc'[s] = "checkTransaction"
       /\ \A s \in Sessions :
              (call[s].action = "rejected" /\ pc'[s] # pc[s])
              => user_profiles' = user_profiles]_vars

C14_Witness ==
    \E s \in Sessions, t \in Sessions :
        /\ s # t
        /\ call[s].action = "rejected" /\ pc[s] = "refresh"
        /\ BalanceWritten(t)
        /\ user_profiles[CallUser(s)].redeemed_points = CallPoints(t)

(* C15 -- processed_at.  For every request, processed_at is set exactly when
   the stored status is completed or rejected, whichever of the actions
   pending, completed and rejected the handler is called with. *)
C15_ProcessedIffTerminal ==
    \A r \in Requests :
        (redemption_requests[r].processed_at # 0)
            <=> (redemption_requests[r].status \in {"completed", "rejected"})

(* C16 -- The ledger row of a completion.  When the insert of a completion
   takes effect for a request that has no ledger row, the ledger afterwards
   holds exactly one row with the request's reference_id: a redeemed row for
   the request's user, completed, whose amount is the negative of the
   request's points; the rows held before are unchanged. *)
C16_NewRowOfCompletion ==
    [][\A s \in Sessions :
          ( /\ pc[s] = "insertTransaction"
            /\ pc'[s] # pc[s]
            /\ transactions' # transactions
            /\ \A i \in 1..Len(transactions) :
                   transactions[i].reference_id # call[s].id )
          => /\ Len(transactions') = Len(transactions) + 1
             /\ \A i \in 1..Len(transactions) :
                    transactions'[i] = transactions[i]
             /\ LET row == transactions'[Len(transactions')]
                IN /\ row.reference_id = call[s].id
                   /\ row.type = "redeemed"
                   /\ row.amount = 0 - CallPoints(s)
                   /\ row.status = "completed"
                   /\ row.user_id = CallUser(s)
             /\ outcome'[s] = "Success"]_vars

C16_Witness ==
    \E s \in Sessions :
        /\ Completing(s)
        /\ pc[s] = "refresh"
        /\ outcome[s] = "Success"
        /\ Cardinality(RedeemedRows(call[s].id)) = 1
        /\ \E i \in RedeemedRows(call[s].id) :
               /\ i = Len(transactions)
               /\ i \notin Seeded
               /\ transactions[i].amount = 0 - CallPoints(s)
               /\ transactions[i].status = "completed"

(* C17 -- Dismissal during a call.  Whether or not the administrator leaves
   the screen while a call is running, every call that has started reaches
   its end (the success alert or an error alert, and the finally block);
   and no call ends on the step that writes the balance, so the ledger step
   is always attempted after it. *)
C17_RunsToTheEnd ==
    /\ \A s \in Sessions : (pc[s] # "idle") ~> (pc[s] = "idle")
    /\ [][\A s \in Sessions :
             (pc[s] # "idle" /\ pc'[s] = "idle")
             => /\ ~processingAction'[s]
                /\ pc[s] = "refresh" \/ outcome'[s] # "none"
                /\ pc[s] = "updatePoints" => user_profiles' = user_profiles]_vars

(* The administrator left the screen during the call (the alert was dismissed
   before the handler returned) and the handler has returned since. *)
C17_Witness ==
    \E s \in Sessions :
        /\ ~focused[s]
        /\ pc[s] = "idle"
        /\ call[s].id # 0
        /\ outcome[s] = "none"
        /\ ~processingAction[s]

(* The step is the delivery of a change event of the given type. *)
Delivered(eventType) ==
    /\ events # <<>>
    /\ Len(events') < Len(events)
    /\ Head(events).eventType = eventType

(* C18 -- The local notification list holds at most one entry per id. *)
C18_OneEntryPerId ==
    \A i \in 1..Len(notifications), j \in 1..Len(notifications) :
        i # j => notifications[i].id # notifications[j].id

(* C19 -- An UPDATE event for a listed id.  The delivery replaces the title
   (and message) and the severity of the entries with that id by the
   event's, keeps their read flag, created_at and position, and leaves every
   other entry and the length of the list as they were. *)
C19_UpdateInPlace ==
    [][( /\ Delivered("UPDATE")
         /\ Head(events).id \in ListedIds )
       => /\ Len(notifications') = Len(notifications)
          /\ \A i \in 1..Len(notifications) :
                 IF notifications[i].id = Head(events).id
                 THEN /\ notifications'[i].id = notifications[i].id
                      /\ notifications'[i].title = Head(events).title
                      /\ notifications'[i].type =
                             getNotificationType(Head(events).priority)
                      /\ notifications'[i].read = notifications[i].read
                      /\ notifications'[i].created_at =
                             notifications[i].created_at
                 ELSE notifications'[i] = notifications[i]]_vars

C19_Witness ==
    /\ Len(notifications) = 2
    /\ events = <<>>
    /\ notifications[1].id # notifications[2].id
    /\ notifications[2].title = 1
    /\ notifications[2].read
    /\ notifications[2].type = "error"
    /\ system_notifications[notifications[2].id].title = 1

(* C20 -- An UPDATE event for an id that is not listed.  After the delivery
   the list begins with an entry of that id whose read flag is false. *)
C20_UpdateOfAbsentInserts ==
    [][( /\ Delivered("UPDATE")
         /\ Head(events).id \notin ListedIds )
       => /\ notifications' # <<>>
          /\ notifications'[1].id = Head(events).id
          /\ ~notifications'[1].read]_vars

(* C21 -- The delivery of a DELETE event leaves the list without the entries
   of the event's id and with every other entry in its place (the list as
   it was when no entry has the id); and when a row is set inactive at the
   source while the client is subscribed, the step either takes the entries
   of that id out of the list or raises a change event for that id. *)
C21_RemovedOnDeleteOrDeactivation ==
    [][ /\ Delivered("DELETE")
            => notifications' =
                   SelectSeq(notifications,
                             LAMBDA notif : notif.id # Head(events).id)
        /\ \A n \in NotificationIds :
               ( /\ subscription = "subscribed"
                 /\ system_notifications[n].state = "active"
                 /\ system_notifications'[n].state = "inactive" )
               => \/ n \notin {notifications'[i].id :
                                  i \in 1..Len(notifications')}
                  \/ /\ Len(events') > Len(events)
                     /\ events'[Len(events')].id = n ]_vars

(* C22 -- For every row of the table, with the events the channel raises
   for it (its INSERT with the title and any priority it was created with,
   the UPDATE and the DELETE of the row as it is now): the change handler
   applied to the empty list for inserted, updated, deleted in this order
   gives the empty list; and applied for inserted, then the entry marked as
   read, then updated, gives a list of exactly one entry, of that id, with
   read = true. *)
C22_EventSequences ==
    \A n \in NotificationIds, p \in Priorities :
        system_notifications[n].state # "absent" =>
            LET row == system_notifications[n]
                inserted == ChangeEvent("INSERT", n,
                                [row EXCEPT !.title = 0, !.priority = p])
                updated == ChangeEvent("UPDATE", n, row)
                deleted == ChangeEvent("DELETE", n, NoNotification)
                listed == OnChange(<<>>, inserted)
                gone == OnChange(OnChange(listed, updated), deleted)
                kept == OnChange(MarkedRead(listed, n), updated)
            IN /\ gone = <<>>
               /\ Len(kept) = 1
               /\ kept[1].id = n
               /\ kept[1].read

(* The second sequence has run on the screen: one notification was
   inserted, marked as read and then edited, and the list holds it alone,
   read, with the edited title. *)
C22_Witness ==
    /\ events = <<>>
    /\ Len(notifications) = 1
    /\ notifications[1].read
    /\ notifications[1].title = 1
    /\ \A n \in NotificationIds :
           system_notifications[n].state # "absent"
               => /\ n = notifications[1].id
                  /\ system_notifications[n].state = "active"
                  /\ system_notifications[n].title = 1

(* C23 -- When the subscription is established again after it was lost, a
   fetch of the full active set is on its way: the step that takes the
   channel from lost to subscribed leaves a fetch sent and not yet
   answered (whose answer then replaces the local list). *)
C23_RefetchOnReconnect ==
    [][(subscription = "lost" /\ subscription' = "subscribed")
           => fetched'.stage = "sent"]_vars

(* C24 -- markRead(id) on the list of any reachable state gives a list of
   the same length in which the entries with that id have read = true and
   their other fields as before, and every other entry is as before (so
   the list itself when no entry has the id); and the step of the screen
   that marks a listed notification as read changes nothing but the list:
   the table, the channel, its events and the fetch stay as they were. *)
C24_MarkReadFrame ==
    /\ [](\A n \in NotificationIds :
             LET marked == MarkedRead(notifications, n)
             IN /\ Len(marked) = Len(notifications)
                /\ \A i \in 1..Len(notifications) :
                       IF notifications[i].id = n
                       THEN /\ marked[i].read
                            /\ marked[i].id = n
                            /\ marked[i].title = notifications[i].title
                            /\ marked[i].type = notifications[i].type
                            /\ marked[i].created_at =
                                   notifications[i].created_at
                       ELSE marked[i] = notifications[i]
                /\ n \notin ListedIds => marked = notifications)
    /\ [][\A n \in ListedIds :
             ( /\ notifications' # notifications
               /\ notifications' = MarkedRead(notifications, n) )
             => UNCHANGED <<system_notifications, subscription, events,
                            fetched, mounted, screen>>]_vars

(* The newer of two listed notifications was marked as read, the older one
   is still unread. *)
C24_Witness ==
    /\ Len(notifications) = 2
    /\ notifications[1].id # notifications[2].id
    /\ notifications[1].read
    /\ ~notifications[2].read

(* C25 -- No request is stored as completed by a completion whose balance
   write has not been applied: whenever a session's completion call has
   its request stored with status completed, that call's balance write
   has taken effect (the ledger upsert follows it). *)
C25_CompletedOnlyAfterDecrement ==
    \A s \in Sessions :
        ( /\ pc[s] # "idle"
          /\ Completing(s)
          /\ redemption_requests[call[s].id].status = "completed" )
        => BalanceWritten(s)

(* C26 -- A completion whose ledger lookup found an existing entry, at the
   step where its update is applied to the ledger.  Afterwards the entry's
   status is completed, its description is the completion's and its amount
   is the negative of the points requested. *)
C26_ExistingEntryAmended ==
    [][\A s \in Sessions :
          ( /\ pc[s] = "updateTransaction"
            /\ pc'[s] # pc[s]
            /\ transactions' # transactions )
          => LET row == transactions'[existingTransaction[s]]
             IN /\ row.status = "completed"
                /\ row.description = "Completed"
                /\ row.amount = -CallPoints(s)]_vars

(* C27 -- The delivery of an INSERT event.  The list grows by one entry at
   the front, which has the event's id, title and created_at, read = false,
   and the severity error for priority critical, warning for high and info
   for any other; the entries listed before follow it in their order with
   their fields unchanged. *)
C27_InsertPrepends ==
    [][Delivered("INSERT")
       => LET ev == Head(events)
          IN /\ Len(notifications') = Len(notifications) + 1
             /\ notifications'[1].id = ev.id
             /\ notifications'[1].title = ev.title
             /\ notifications'[1].created_at = ev.created_at
             /\ ~notifications'[1].read
             /\ notifications'[1].type =
                    IF ev.priority = "critical" THEN "error"
                    ELSE IF ev.priority = "high" THEN "warning"
                    ELSE "info"
             /\ \A i \in 1..Len(notifications) :
                    notifications'[i + 1] = notifications[i]]_vars

(* A critical notification was inserted while an older one, already read,
   was listed: it is at the front, unread, as an error, and the older entry
   is still read. *)
C27_Witness ==
    /\ Len(notifications) = 2
    /\ events = <<>>
    /\ notifications[1].id # notifications[2].id
    /\ notifications[1].type = "error"
    /\ ~notifications[1].read
    /\ notifications[2].read
    /\ notifications[1].created_at > notifications[2].created_at

(* C28 -- The channel is subscribed exactly while HomeScreen is mounted: it
   is acquired by the step that mounts the screen and released by the step
   that unmounts it; and while the screen stays unmounted no step changes
   the local list and no change event is kept for it. *)
C28_SubscriptionFollowsView ==
    /\ [](mounted <=> subscription = "subscribed")
    /\ [](~mounted => events = <<>>)
    /\ [][(~mounted /\ ~mounted') => notifications' = notifications]_vars

(* The screen was left, its channel removed, and a notification created at
   the source since then is active and reached no list. *)
C28_Witness ==
    /\ ~mounted
    /\ subscription = "removed"
    /\ notifications = <<>>
    /\ \E n \in NotificationIds : system_notifications[n].state = "active"

(* C29 -- In each session the in-flight flag is set exactly while a run of
   handleRequestAction is in flight, so it is clear again after every exit;
   an invocation starts a run (and is counted) only in a session whose flag
   is clear; and while the flag of a session is set no step starts another
   run for it: its call keeps its request and action, its handler is not
   taken back to its first store operation, and no invocation is counted
   for it. *)
C29_OneRunInFlight ==
    /\ [](\A s \in Sessions : processingAction[s] <=> pc[s] # "idle")
    /\ [][\A s \in Sessions :
             processingAction[s]
             => /\ call'[s] = call[s]
                /\ pc[s] # "updateRequest" => pc'[s] # "updateRequest"
                /\ calls' # calls
                       => \E o \in Sessions \ {s} :
                              ~processingAction[o] /\ processingAction'[o]]_vars

(* A run is in flight, past its first store operation, with the Complete
   and Reject buttons of its modal still on the screen: an invocation made
   now is a second one for the session. *)
C29_Witness ==
    \E s \in Sessions :
        /\ processingAction[s]
        /\ pc[s] \in {"getProfile", "updatePoints", "checkTransaction"}
        /\ ButtonsShown(s)
        /\ ENABLED PressInFlight(s, "completed")

(* C30 -- fetchNotifications.  The answer of a successful select lists the
   rows that are active at the source when it is read, each once, newest
   first, each with the row's title and created_at, its severity mapped and
   read = false; the step that sets the list makes the list that answer,
   whatever it held; and the step that ends a fetch in an error leaves the
   list as it was. *)
C30_FetchReplacesList ==
    [][ /\ (fetched.stage = "sent" /\ fetched'.stage = "answered")
            => LET data == fetched'.data
               IN /\ Len(data) = Cardinality(ActiveIds)
                  /\ {data[i].id : i \in 1..Len(data)} = ActiveIds
                  /\ \A i \in 1..Len(data) :
                         LET row == system_notifications[data[i].id]
                         IN /\ ~data[i].read
                            /\ data[i].title = row.title
                            /\ data[i].created_at = row.created_at
                            /\ data[i].type =
                                   IF row.priority = "critical" THEN "error"
                                   ELSE IF row.priority = "high"
                                        THEN "warning"
                                   ELSE "info"
                  /\ \A i \in 1..Len(data), j \in 1..Len(data) :
                         i < j => data[i].created_at > data[j].created_at
        /\ (fetched.stage = "answered" /\ fetched'.stage = "none")
            => notifications' = fetched.data
        /\ (fetched.stage = "sent" /\ fetched'.stage = "none")
            => notifications' = notifications ]_vars

(* A select was answered with two active notifications while the list
   holds something else, one of its entries read: the list is about to be
   replaced. *)
C30_Witness ==
    /\ fetched.stage = "answered"
    /\ Len(fetched.data) = 2
    /\ notifications # <<>>
    /\ notifications # fetched.data
    /\ \E i \in 1..Len(notifications) : notifications[i].read

====
